---- MODULE Spec2Model ----
(***************************************************************************)
(* A state-machine model of model/rvae.py: the RVAE module's forward pass, *)
(* the training function returned by RVAE.trainer and the free-running     *)
(* RVAE.sample loop.  The embedding, encoder, decoder, optimizer and batch *)
(* loader are collaborators: what they return is chosen nondeterministic-  *)
(* ally from small sets, what is done with it follows the code.            *)
(***************************************************************************)
EXTENDS Integers, Sequences, FiniteSets, TLC

\* ------------------------------------------------------------- bounds
\* Largest seq_len given to sample.
MaxSeqLen == 3
\* Largest number of optimizer steps in one behaviour.
MaxUpdates == 2

\* ------------------------------------------------------------- values
\* Python's None and a present value.
None == <<>>
Some(v) == <<v>>

\* Strings are sequences of characters, so that concatenation is computed.
go_token == <<">">>
end_token == <<"|">>
Words == {<<"b", "c">>}
Vocab == Words \cup {go_token, end_token}
separator == <<" ">>

\* batch_loader.word_to_idx: an injective word -> index mapping.
word_to_idx(word) ==
    CASE word = go_token -> 1
      [] word = end_token -> 2
      [] word = <<"b", "c">> -> 3

\* batch_loader.go_input(1): the start token's index as the decoder input.
go_input == word_to_idx(go_token)

\* What the collaborators may return.
Logits == {"o1"}
States == {"h1", "h2"}
Klds == {"k1"}
Latents == {"z1"}
DropProbs == {0, 30}
\* Step indices i given to train.
Steps == {0, 3500}
Envs == [out : Logits, final_state : States, kld : Klds, z : {"z_sampled"}]

\* batch_loader.next_batch(batch_size, 'train'): four arrays; the decoder
\* input's size gives [batch_size, seq_len].
Batches ==
    { [encoder_word_input |-> 10, encoder_character_input |-> 11,
       decoder_word_input |-> 12, target |-> 13, batch_size |-> 2, seq_len |-> 3],
      [encoder_word_input |-> 20, encoder_character_input |-> 21,
       decoder_word_input |-> 22, target |-> 23, batch_size |-> 1, seq_len |-> 2] }

\* utils.functional.kld_coef(i), kept symbolic.
kld_coef(i) == [fn |-> "kld_coef", i |-> i]

\* ------------------------------------------------------------- forward
\* utils.functional.fold with the lambda of line 54:
\* acc and parameter is not None, folded from the left.
RECURSIVE fold(_, _)
fold(list, acc) ==
    IF list = <<>> THEN acc
    ELSE fold(Tail(list), acc /\ Head(list) # None)

InputContract_NoDecoderCheck(args) ==
    \/ args.z = None /\ fold(<<args.encoder_word_input, args.encoder_character_input,
                               args.decoder_word_input>>, TRUE)
    \/ args.z # None

\* The assertion of lines 54-58.
InputContract(args) ==
    \/ args.z = None /\ fold(<<args.encoder_word_input, args.encoder_character_input,
                               args.decoder_word_input>>, TRUE)
    \/ (args.z # None /\ args.decoder_word_input # None)

\* A forward call that raised: nothing is returned.
Raised(self, args, error, trace) ==
    [args |-> args, outcome |-> error, trace |-> trace,
     out |-> None, final_state |-> None, kld |-> None, decoder |-> None,
     parameters |-> self.parameters]

\* Lines 60-84: the encoder side runs only when z is None.
LatentCalls(z) ==
    IF z = None
    THEN <<"embedding", "encoder", "context_to_mu", "context_to_logvar", "randn">>
    ELSE <<>>

Kld_Always(z, env) == Some(env.kld)

\* Lines 79 and 84: kld is computed when z is None and None otherwise.
Kld(z, env) == IF z = None THEN Some(env.kld) ELSE None

Preconditions_InputFirst(self, args) ==
    IF ~InputContract(args)
    THEN [error |-> "InputError", trace |-> <<"input_check">>]
    ELSE IF ~self.allocated
    THEN [error |-> "AllocationError",
          trace |-> <<"input_check", "parameters_allocation_check">>]
    ELSE [error |-> "", trace |-> <<"input_check", "parameters_allocation_check">>]

\* Lines 50-58: the two assertions, in order; the second is not evaluated
\* when the first fails.
Preconditions(self, args) ==
    IF ~self.allocated
    THEN [error |-> "AllocationError", trace |-> <<"parameters_allocation_check">>]
    ELSE IF ~InputContract(args)
    THEN [error |-> "InputError",
          trace |-> <<"parameters_allocation_check", "input_check">>]
    ELSE [error |-> "", trace |-> <<"parameters_allocation_check", "input_check">>]

forward_WritesParameters(self, args, env) ==
    LET pre == Preconditions(self, args)
    IN IF pre.error # "" THEN Raised(self, args, pre.error, pre.trace)
       ELSE [args |-> args, outcome |-> "return",
             trace |-> pre.trace \o LatentCalls(args.z)
                          \o <<"word_embed", "dropout", "decoder">>,
             out |-> Some(env.out), final_state |-> Some(env.final_state),
             kld |-> Kld(args.z, env),
             decoder |-> Some([input |-> args.decoder_word_input,
                               drop_prob |-> args.drop_prob,
                               z |-> IF args.z = None THEN Some(env.z) ELSE args.z,
                               initial_state |-> args.initial_state]),
             parameters |-> self.parameters + 1]

\* RVAE.forward, lines 31-89.  self is the module: whether its parameters
\* pass parameters_allocation_check, and the parameters' version.
forward(self, args, env) ==
    LET pre == Preconditions(self, args)
    IN IF pre.error # "" THEN Raised(self, args, pre.error, pre.trace)
       ELSE [args |-> args, outcome |-> "return",
             trace |-> pre.trace \o LatentCalls(args.z)
                          \o <<"word_embed", "dropout", "decoder">>,
             out |-> Some(env.out), final_state |-> Some(env.final_state),
             kld |-> Kld(args.z, env),
             decoder |-> Some([input |-> args.decoder_word_input,
                               drop_prob |-> args.drop_prob,
                               z |-> IF args.z = None THEN Some(env.z) ELSE args.z,
                               initial_state |-> args.initial_state]),
             parameters |-> self.parameters]

\* The keyword arguments of a forward call.
Args(drop_prob, encoder_word_input, encoder_character_input, decoder_word_input, z, initial_state) ==
    [drop_prob |-> drop_prob,
     encoder_word_input |-> encoder_word_input,
     encoder_character_input |-> encoder_character_input,
     decoder_word_input |-> decoder_word_input,
     z |-> z, initial_state |-> initial_state]

\* ------------------------------------------------------------- trainer
train_ZeroGradFirst(self, grad, i, batch, dropout, env) ==
    LET call == forward(self, Args(dropout, Some(batch.encoder_word_input),
                                   Some(batch.encoder_character_input),
                                   Some(batch.decoder_word_input), None, None), env)
    IN IF call.outcome # "return"
       THEN [call |-> call, outcome |-> call.outcome, value |-> <<>>,
             steps |-> <<"next_batch", "zero_grad", "forward">>,
             grad |-> Some("zero"), parameters |-> call.parameters]
       ELSE LET bce == [fn |-> "binary_cross_entropy", logits |-> call.out[1],
                        target |-> batch.target, seq_len |-> batch.seq_len]
                loss == [bce |-> bce, coef |-> kld_coef(i), kld |-> call.kld[1],
                         batch_size |-> batch.batch_size]
            IN [call |-> call, outcome |-> "return",
                value |-> <<bce, call.kld[1], kld_coef(i)>>,
                steps |-> <<"next_batch", "zero_grad", "forward", "loss",
                            "backward", "step">>,
                grad |-> Some(loss), parameters |-> call.parameters + 1]

\* The function train returned by RVAE.trainer, lines 96-124.  An exception
\* of the forward pass leaves the function at line 107.
train(self, grad, i, batch, dropout, env) ==
    LET call == forward(self, Args(dropout, Some(batch.encoder_word_input),
                                   Some(batch.encoder_character_input),
                                   Some(batch.decoder_word_input), None, None), env)
    IN IF call.outcome # "return"
       THEN [call |-> call, outcome |-> call.outcome, value |-> <<>>,
             steps |-> <<"next_batch", "forward">>,
             grad |-> grad, parameters |-> call.parameters]
       ELSE LET bce == [fn |-> "binary_cross_entropy", logits |-> call.out[1],
                        target |-> batch.target, seq_len |-> batch.seq_len]
                loss == [bce |-> bce, coef |-> kld_coef(i), kld |-> call.kld[1],
                         batch_size |-> batch.batch_size]
            IN [call |-> call, outcome |-> "return",
                value |-> <<bce, call.kld[1], kld_coef(i)>>,
                steps |-> <<"next_batch", "forward", "loss", "zero_grad",
                            "backward", "step">>,
                grad |-> Some(loss), parameters |-> call.parameters + 1]

\* ------------------------------------------------------------- sample
LoopContinues_OneMore(i, n) == i <= n

LoopContinues_OneLess(i, n) == i + 1 < n

\* for i in range(seq_len), line 144.
LoopContinues(i, n) == i < n

\* initial_state = None, line 142.
InitialState == None

\* Lines 133-135: the first decoder input is go_input.
FirstDecoderInput == Some(go_input)

\* result += ' ' + word, line 157.
NextResult(result, word) == result \o separator \o word

NextDecoderInput_Stale(current, word) == current

\* Lines 159-161: the next decoder input is the sampled word's index.
NextDecoderInput(current, word) == Some(word_to_idx(word))

NextState_NotThreaded(current, call) == current

\* Line 145: initial_state is rebound to the state forward returned.
NextState(current, call) == call.final_state

\* word == batch_loader.end_token, line 154.
IsEnd(word) == word = end_token

sample_iteration_AppendsEnd(self, locals, word, env) ==
    LET call == forward(self, Args(0, None, None, locals.decoder_word_input,
                                   locals.seed, locals.initial_state), env)
    IN IF call.outcome # "return"
       THEN [call |-> call, raised |-> TRUE, break |-> FALSE,
             initial_state |-> locals.initial_state,
             result |-> locals.result,
             decoder_word_input |-> locals.decoder_word_input]
       ELSE [call |-> call, raised |-> FALSE, break |-> IsEnd(word),
             initial_state |-> NextState(locals.initial_state, call),
             result |-> NextResult(locals.result, word),
             decoder_word_input |-> NextDecoderInput(locals.decoder_word_input, word)]

\* One iteration of the loop of RVAE.sample, lines 145-164, with word the
\* answer of batch_loader.sample_word_from_distribution.  The break of line
\* 155 leaves result and the decoder input as they are; an exception of
\* forward leaves before initial_state is rebound.
sample_iteration(self, locals, word, env) ==
    LET call == forward(self, Args(0, None, None, locals.decoder_word_input,
                                   locals.seed, locals.initial_state), env)
    IN IF call.outcome # "return"
       THEN [call |-> call, raised |-> TRUE, break |-> FALSE,
             initial_state |-> locals.initial_state,
             result |-> locals.result,
             decoder_word_input |-> locals.decoder_word_input]
       ELSE IF IsEnd(word)
       THEN [call |-> call, raised |-> FALSE, break |-> TRUE,
             initial_state |-> NextState(locals.initial_state, call),
             result |-> locals.result,
             decoder_word_input |-> locals.decoder_word_input]
       ELSE [call |-> call, raised |-> FALSE, break |-> FALSE,
             initial_state |-> NextState(locals.initial_state, call),
             result |-> NextResult(locals.result, word),
             decoder_word_input |-> NextDecoderInput(locals.decoder_word_input, word)]

\* ------------------------------------------------------------- state
VARIABLES
    allocated,           \* parameters_allocation_check(self)
    parameters,          \* version of the model parameters (optimizer steps applied)
    grad,                \* what the parameters' gradients hold
    pc,                  \* "idle", or the position inside a running sample
    seq_len,             \* sample's argument
    seed,                \* sample's local: the latent vector
    i,                   \* sample's loop index
    decoder_word_input,  \* sample's local
    initial_state,       \* sample's local
    result,              \* sample's local
    calls,               \* forward invocations of the current or last operation
    drawn,               \* words the sampler returned in the current or last run
    steps,               \* what the last train call did, in order
    train_args,          \* the arguments of the last train call
    exit,                \* how the last sample run left its loop
    ret                  \* what the last operation returned or raised

vars == <<allocated, parameters, grad, pc, seq_len, seed, i, decoder_word_input, initial_state, result, calls, drawn, steps, train_args, exit, ret>>

sample_locals == <<seed, i, decoder_word_input, initial_state, result>>

Self == [allocated |-> allocated, parameters |-> parameters]

Locals == [seed |-> seed, decoder_word_input |-> decoder_word_input, initial_state |-> initial_state, result |-> result]

NoRet == [op |-> "none", outcome |-> "none", value |-> <<>>]

Optional(S) == {None} \cup {Some(x) : x \in S}

Init ==
    /\ allocated \in BOOLEAN
    /\ parameters = 0
    /\ grad = None
    /\ pc = "idle"
    /\ seq_len = 0
    /\ seed = None
    /\ i = 0
    /\ decoder_word_input = None
    /\ initial_state = None
    /\ result = <<>>
    /\ calls = <<>>
    /\ drawn = <<>>
    /\ steps = <<>>
    /\ train_args = None
    /\ exit = "none"
    /\ ret = NoRet

\* A caller invokes RVAE.forward with any combination of arguments.
CallForward ==
    /\ pc = "idle"
    /\ \E drop_prob \in DropProbs, ewi \in Optional({30}), eci \in Optional({31}), dwi \in Optional({32}), z \in Optional(Latents), st \in Optional({"h1"}), env \in Envs :
          LET call == forward(Self, Args(drop_prob, ewi, eci, dwi, z, st), env)
          IN /\ calls' = <<call>>
             /\ parameters' = call.parameters
             /\ ret' = [op |-> "forward", outcome |-> call.outcome,
                        value |-> IF call.outcome = "return"
                                  THEN <<call.out, call.final_state, call.kld>>
                                  ELSE <<>>]
    /\ seq_len' = 0
    /\ drawn' = <<>>
    /\ steps' = <<>>
    /\ train_args' = None
    /\ exit' = "none"
    /\ UNCHANGED <<allocated, grad, pc, sample_locals>>

\* A caller invokes the training function.
Train ==
    /\ pc = "idle"
    /\ parameters < MaxUpdates
    /\ \E step \in Steps, batch \in Batches, dropout \in DropProbs, env \in Envs :
          LET r == train(Self, grad, step, batch, dropout, env)
          IN /\ calls' = <<r.call>>
             /\ parameters' = r.parameters
             /\ grad' = r.grad
             /\ steps' = r.steps
             /\ train_args' = Some([i |-> step, batch |-> batch, dropout |-> dropout])
             /\ ret' = [op |-> "train", outcome |-> r.outcome, value |-> r.value]
    /\ seq_len' = 0
    /\ drawn' = <<>>
    /\ exit' = "none"
    /\ UNCHANGED <<allocated, pc, sample_locals>>

\* RVAE.sample is entered: lines 129-142.
SampleBegin ==
    /\ pc = "idle"
    /\ \E n \in 0..MaxSeqLen, sd \in Latents :
          /\ seq_len' = n
          /\ seed' = Some(sd)
    /\ decoder_word_input' = FirstDecoderInput
    /\ result' = <<>>
    /\ initial_state' = InitialState
    /\ i' = 0
    /\ pc' = "loop"
    /\ calls' = <<>>
    /\ drawn' = <<>>
    /\ steps' = <<>>
    /\ train_args' = None
    /\ exit' = "none"
    /\ ret' = NoRet
    /\ UNCHANGED <<allocated, parameters, grad>>

\* One iteration of sample's loop; an exception of forward ends the run.
SampleIteration ==
    /\ pc = "loop"
    /\ LoopContinues(i, seq_len)
    /\ \E word \in Vocab, env \in Envs :
          LET r == sample_iteration(Self, Locals, word, env)
          IN /\ calls' = Append(calls, r.call)
             /\ parameters' = r.call.parameters
             /\ IF r.raised
                THEN /\ pc' = "idle"
                     /\ exit' = "raise"
                     /\ ret' = [op |-> "sample", outcome |-> r.call.outcome, value |-> <<>>]
                     /\ drawn' = drawn
                     /\ seed' = None
                     /\ i' = 0
                     /\ decoder_word_input' = None
                     /\ initial_state' = None
                     /\ result' = <<>>
                ELSE /\ pc' = IF r.break THEN "return" ELSE "loop"
                     /\ i' = IF r.break THEN i ELSE i + 1
                     /\ drawn' = Append(drawn, word)
                     /\ decoder_word_input' = r.decoder_word_input
                     /\ initial_state' = r.initial_state
                     /\ result' = r.result
                     /\ UNCHANGED <<exit, ret, seed>>
    /\ UNCHANGED <<allocated, grad, seq_len, steps, train_args>>

\* return result, line 166, after a break or when the range is exhausted.
SampleReturn ==
    /\ \/ pc = "return"
       \/ pc = "loop" /\ ~LoopContinues(i, seq_len)
    /\ exit' = IF pc = "return" THEN "break" ELSE "exhausted"
    /\ ret' = [op |-> "sample", outcome |-> "return", value |-> result]
    /\ pc' = "idle"
    /\ seed' = None
    /\ i' = 0
    /\ decoder_word_input' = None
    /\ initial_state' = None
    /\ result' = <<>>
    /\ UNCHANGED <<allocated, parameters, grad, seq_len, calls, drawn, steps, train_args>>

Next ==
    \/ CallForward
    \/ Train
    \/ SampleBegin
    \/ SampleIteration
    \/ SampleReturn

Spec == Init /\ [][Next]_vars

\* ------------------------------------------------------------- properties
\* The forward invocations of the current or last operation.
Calls == {calls[k] : k \in 1..Len(calls)}

Invoked(call, name) == \E k \in 1..Len(call.trace) : call.trace[k] = name

Present(x) == x # None

\* Training mode: the three inputs present and z absent.
TrainingInputs(a) ==
    /\ ~Present(a.z)
    /\ Present(a.encoder_word_input)
    /\ Present(a.encoder_character_input)
    /\ Present(a.decoder_word_input)

\* Sampling mode as the specification states it: z and the decoder input
\* present, both encoder inputs absent.
ExclusiveLatentInputs(a) ==
    /\ Present(a.z)
    /\ Present(a.decoder_word_input)
    /\ ~Present(a.encoder_word_input)
    /\ ~Present(a.encoder_character_input)

\* Sampling mode as the assertion states it: z and the decoder input present.
LatentInputs(a) == Present(a.z) /\ Present(a.decoder_word_input)

C2_KldIffLatentSampled ==
    \A c \in Calls :
        c.outcome = "return" =>
           /\ Present(c.kld) <=> ~Present(c.args.z)
           /\ Present(c.args.z) =>
                 /\ c.kld = None
                 /\ ~Invoked(c, "embedding")
                 /\ ~Invoked(c, "encoder")
                 /\ ~Invoked(c, "context_to_mu")
                 /\ ~Invoked(c, "context_to_logvar")
           /\ ~Present(c.args.z) =>
                 /\ Invoked(c, "encoder")
                 /\ Invoked(c, "context_to_mu")
                 /\ Invoked(c, "context_to_logvar")

\* A forward call with z supplied returned an absent kld.
C2_Witness ==
    /\ ret.op = "forward"
    /\ ret.outcome = "return"
    /\ Present(calls[1].args.z)
    /\ ret.value[3] = None

Computation == {"embedding", "encoder", "context_to_mu", "context_to_logvar", "randn", "word_embed", "dropout", "decoder"}

\* C7: a forward call whose allocation check or input check fails raises
\* with no collaborator invoked and nothing returned; the allocation check is
\* evaluated first, so that a call failing both raises the allocation error
\* and never evaluates the input check; a call that returns has evaluated
\* both, in that order, before anything else.
C7_PreconditionsFirst ==
    \A c \in Calls :
        /\ c.trace[1] = "parameters_allocation_check"
        /\ ~allocated =>
              /\ c.outcome = "AllocationError"
              /\ c.trace = <<"parameters_allocation_check">>
        /\ c.outcome = "InputError" =>
              c.trace = <<"parameters_allocation_check", "input_check">>
        /\ c.outcome # "return" =>
              /\ \A name \in Computation : ~Invoked(c, name)
              /\ c.out = None /\ c.final_state = None /\ c.kld = None
              /\ c.decoder = None
              /\ ret.op = "forward" => ret.value = <<>>
        /\ c.outcome = "return" =>
              /\ Len(c.trace) > 2
              /\ c.trace[2] = "input_check"
              /\ \A k \in 3..Len(c.trace) : c.trace[k] \in Computation

\* A forward call that fails both checks raised the allocation error.
C7_Witness ==
    /\ ret.op = "forward"
    /\ ret.outcome = "AllocationError"
    /\ ~Present(calls[1].args.z)
    /\ ~Present(calls[1].args.decoder_word_input)

\* The state belongs to a sample run: one in progress or the last
\* operation completed.
InSample == pc # "idle" \/ ret.op = "sample"

Returned == pc = "idle" /\ ret.op = "sample" /\ ret.outcome = "return"

HasEnd(words) == \E k \in 1..Len(words) : words[k] = end_token

\* The words of a string: its maximal runs of characters other than the
\* separator, counted.
RECURSIVE WordCount(_)
WordCount(str) ==
    IF str = <<>> THEN 0
    ELSE (IF Head(str) # separator[1] /\ (Len(str) = 1 \/ str[2] = separator[1])
          THEN 1 ELSE 0) + WordCount(Tail(str))

\* The words before the first end token.
RECURSIVE BeforeEnd(_)
BeforeEnd(words) ==
    IF words = <<>> \/ Head(words) = end_token THEN <<>>
    ELSE <<Head(words)>> \o BeforeEnd(Tail(words))

\* Each word prefixed by the separator, in order.
RECURSIVE Joined(_)
Joined(words) ==
    IF words = <<>> THEN <<>>
    ELSE separator \o Head(words) \o Joined(Tail(words))

\* C3: when the sampler's first answer of a run with seq_len >= 1 is the end
\* token, the run makes exactly one forward pass (one decoder step), leaves
\* the loop at once and returns the empty string.
C3_EndTokenFirst ==
    (InSample /\ drawn # <<>> /\ drawn[1] = end_token) =>
        /\ seq_len >= 1
        /\ Len(calls) = 1
        /\ Invoked(calls[1], "decoder")
        /\ Len(drawn) = 1
        /\ pc \in {"return", "idle"}
        /\ ~ENABLED SampleIteration
        /\ pc = "return" => result = <<>>
        /\ pc = "idle" =>
              /\ ret = [op |-> "sample", outcome |-> "return", value |-> <<>>]
              /\ exit = "break"

\* A run with budget left returned after the end token came first.
C3_Witness ==
    /\ Returned
    /\ seq_len >= 2
    /\ drawn = <<end_token>>
    /\ ret.value = <<>>

\* C4: a run with seq_len = n whose sampler never answers the end token, and
\* whose forward passes do not raise, makes exactly n decoder steps, returns
\* a string of exactly n words and leaves the loop because the range is
\* exhausted, not by the break.
C4_BudgetExhausted ==
    (Returned /\ ~HasEnd(drawn)) =>
        /\ Len(calls) = seq_len
        /\ \A c \in Calls : Invoked(c, "decoder")
        /\ Len(drawn) = seq_len
        /\ WordCount(ret.value) = seq_len
        /\ exit = "exhausted"

\* A run with the largest budget returned without an end token.
C4_Witness ==
    /\ Returned
    /\ seq_len >= 3
    /\ ~HasEnd(drawn)
    /\ WordCount(ret.value) = seq_len
    /\ exit = "exhausted"

\* C5: a run never makes more than seq_len forward passes; it leaves the
\* loop with budget left only right after the end token was sampled (or by
\* an exception of forward, which is not a return); with the budget
\* exhausted the run returns its text normally.
C5_Termination ==
    InSample =>
        /\ Len(calls) <= seq_len
        /\ (pc = "loop" /\ Len(calls) = seq_len) => ~ENABLED SampleIteration
        /\ pc = "return" => (drawn # <<>> /\ drawn[Len(drawn)] = end_token)
        /\ (Returned /\ Len(calls) < seq_len) =>
              /\ exit = "break"
              /\ Len(drawn) = Len(calls)
              /\ drawn[Len(drawn)] = end_token
        /\ (pc = "idle" /\ ~HasEnd(drawn) /\ Len(drawn) = seq_len) =>
              /\ ret.outcome = "return"
              /\ exit = "exhausted"
              /\ ret.value = Joined(drawn)
        /\ (pc = "idle" /\ ret.outcome # "return") =>
              /\ exit = "raise"
              /\ calls[Len(calls)].outcome = "AllocationError"

\* A run stopped by the end token after two words, with budget left.
C5_Witness ==
    /\ Returned
    /\ exit = "break"
    /\ Len(calls) = 2
    /\ Len(calls) < seq_len

\* C8: the first decoder input of a run is the start token's index; every
\* later one is the index of the word sampled in the step before; the end
\* token is never appended and ends the run; the text, and the string
\* returned, is the separator-prefixed concatenation, in order, of the words
\* sampled before the first end token.
C8_FeedbackAndResult ==
    InSample =>
        /\ Len(calls) >= 1 => calls[1].args.decoder_word_input = Some(go_input)
        /\ \A k \in 2..Len(calls) :
              calls[k].args.decoder_word_input = Some(word_to_idx(drawn[k - 1]))
        /\ \A k \in 1..(Len(drawn) - 1) : drawn[k] # end_token
        /\ pc = "loop" =>
              /\ result = Joined(drawn)
              /\ decoder_word_input =
                    IF drawn = <<>> THEN Some(go_input)
                    ELSE Some(word_to_idx(drawn[Len(drawn)]))
        /\ pc = "return" => result = Joined(BeforeEnd(drawn))
        /\ Returned => ret.value = Joined(BeforeEnd(drawn))

\* A run returned two different words, in order, and stopped at the end token.
C8_Witness ==
    /\ Returned
    /\ drawn = <<<<"b", "c">>, go_token, end_token>>
    /\ ret.value = <<" ", "b", "c", " ", ">">>

\* C9: the first forward pass of every run receives an absent recurrent
\* state, every later one receives exactly the state the pass before it
\* returned, and the decoder is given that same state.
C9_StateThreaded ==
    InSample =>
        /\ Len(calls) >= 1 => calls[1].args.initial_state = None
        /\ (pc = "loop" /\ calls = <<>>) => initial_state = None
        /\ \A k \in 2..Len(calls) :
              /\ Present(calls[k - 1].final_state)
              /\ calls[k].args.initial_state = calls[k - 1].final_state
        /\ \A c \in Calls :
              c.outcome = "return" =>
                 c.decoder[1].initial_state = c.args.initial_state
        /\ (pc = "loop" /\ calls # <<>>) =>
              initial_state = calls[Len(calls)].final_state

\* A later run (the parameters were trained before it) threaded two
\* different states through three passes.
C9_Witness ==
    /\ InSample
    /\ parameters > 0
    /\ Len(calls) = 3
    /\ calls[1].final_state # calls[2].final_state
    /\ calls[3].args.initial_state = calls[2].final_state

\* C6: the parameters change only in a step of the training function that
\* reaches optimizer.step; no forward call and no step of a sample run,
\* returning or raising, changes them.
C6_OnlyOptimizerWrites ==
    [][/\ parameters' # parameters =>
             /\ pc = "idle" /\ pc' = "idle"
             /\ ret'.op = "train"
             /\ ret'.outcome = "return"
             /\ steps'[Len(steps')] = "step"
             /\ parameters' = parameters + 1
       /\ (pc # "idle" \/ pc' # "idle" \/ ret'.op \in {"forward", "sample"}) =>
             parameters' = parameters]_vars

\* A sample run of two passes returned on a trained model.
C6_Witness ==
    /\ Returned
    /\ parameters = 1
    /\ Len(calls) >= 2

\* A step of the training function: the only step that leaves a train
\* result behind.
TrainStep == pc = "idle" /\ ret'.op = "train"

\* What a step of the training function leaves behind.
C10_Post ==
    LET a == train_args'[1]
        c == calls'[1]
    IN /\ ret'.op = "train"
       /\ Len(calls') = 1
       /\ c.args = Args(a.dropout, Some(a.batch.encoder_word_input),
                        Some(a.batch.encoder_character_input),
                        Some(a.batch.decoder_word_input), None, None)
       /\ ret'.outcome = c.outcome
       /\ c.outcome = "return" =>
             /\ steps' = <<"next_batch", "forward", "loss", "zero_grad", "backward", "step">>
             /\ Len(ret'.value) = 3
             /\ ret'.value[1].logits = c.out[1]
             /\ ret'.value[1].target = a.batch.target
             /\ ret'.value[1].seq_len = a.batch.seq_len
             /\ ret'.value[2] = c.kld[1]
             /\ ret'.value[3] = kld_coef(a.i)
             /\ parameters' = parameters + 1
             /\ grad' = Some([bce |-> ret'.value[1], coef |-> kld_coef(a.i),
                              kld |-> c.kld[1], batch_size |-> a.batch.batch_size])
       /\ c.outcome # "return" =>
             /\ steps' = <<"next_batch", "forward">>
             /\ ret'.value = <<>>
             /\ grad' = grad
             /\ parameters' = parameters

\* C10: a call of the training function pulls one batch, makes one forward
\* pass with the batch's three inputs, z absent and the caller's dropout,
\* computes the loss, zeroes the gradients, backpropagates and steps the
\* optimizer once, in that order, and returns (bce, kld, kld_coef(i)); when
\* the forward pass raises, the gradients and the parameters are untouched
\* and neither zero_grad nor the optimizer step has run.
C10_TrainingStep == [][TrainStep => C10_Post]_vars

\* A second training step returned its triple.
C10_Witness ==
    /\ ret.op = "train"
    /\ ret.outcome = "return"
    /\ parameters = 2
    /\ train_args[1].i = 3500
    /\ ret.value[3] = kld_coef(3500)

====
